---- MODULE Spec2Model ----
(***************************************************************************)
(* The /identify endpoint of src/main.py over its contacts table.          *)
(*                                                                         *)
(* Spec   : requests are served one after the other; one step is one whole *)
(*          run of identify_contact (validation, lookup, inserts, commit,  *)
(*          re-read, response).                                            *)
(* SpecTx : two sessions serve requests side by side; a step is one        *)
(*          statement that reaches the database (the lookup, one INSERT of *)
(*          the flush, the COMMIT, the re-read) or a failure that ends the *)
(*          request.                                                       *)
(***************************************************************************)
EXTENDS Integers, Sequences, FiniteSets, TLC

(* ------------------------------ bounds -------------------------------- *)
\* rows the contacts table may hold
MaxContacts == 4
\* requests the two sessions of SpecTx take up, together
MaxRequests == 3

(* ------------------------------ values -------------------------------- *)
\* Python None / SQL NULL in a string column
NULL == "NULL"
\* the empty string, which a JSON body can carry
EMPTY == ""
\* SQL NULL in the integer column linkedId (ids start at 1)
NoId == 0

\* strings that pass EmailStr
Emails == {"e1", "e2"}
\* strings that pass constr(min_length=10, max_length=15)
Phones == {"p1", "p2"}
\* what a JSON body can carry in the email / phoneNumber field
EmailInputs == Emails \cup {NULL, EMPTY}
PhoneInputs == Phones \cup {NULL, EMPTY}

VARIABLES
    contacts,   \* the contacts table: a sequence of rows, row i has id i
    now,        \* the last reading of the wall clock
    before,     \* the contacts table when the last request arrived
    request,    \* the last request: [email, phoneNumber], or NoRequest
    response,   \* the answer to the last request
    queried,    \* TRUE iff the last request ran a query on the table
    repeat,     \* TRUE iff the last request was served and repeated the
                \* served request right before it
    pc,         \* SpecTx: where each session is in identify_contact
    sreq,       \* SpecTx: the request each session serves
    primary,    \* SpecTx: the id of each session's primary_contact, NoId
                \*         when its lookup found nothing
    entries,    \* SpecTx: the objects each session has added and not yet flushed
    flushed,    \* SpecTx: the rows each session's request has INSERTed
    sresp,      \* SpecTx: the answer to each session's last request
    tx,         \* SpecTx: the rows of the open write transaction, not yet committed
    writer,     \* SpecTx: the session that holds the write transaction, or NoSession
    started,    \* SpecTx: the requests taken up so far
    base,       \* SpecTx: the table when a request last arrived while no
                \*         other request was in flight, kept while that request
                \*         runs alone or is one of a pair (inflight = 1, 2)
    inflight    \* SpecTx: 1 while a request runs that overlapped no other; 2
                \*         once exactly one other request, apart from it, has
                \*         overlapped it and neither has failed; 3 for any other
                \*         overlap; 0 once a request that ran alone has ended

seqvars == <<before, request, response, queried, repeat>>
txvars == <<pc, sreq, primary, entries, flushed, sresp, tx, writer, started, base, inflight>>
vars == <<contacts, now, seqvars, txvars>>

\* one session per request in flight (get_db)
Sessions == {1, 2}
NoSession == 0

NoRequest == [email |-> "-", phoneNumber |-> "-"]
NoResponse == [status |-> "none", primaryContactId |-> NoId, emails |-> <<>>, phoneNumbers |-> <<>>, secondaryContactIds |-> <<>>]

(* --------------------------- pure helpers ----------------------------- *)
Range(s) == {s[i] : i \in DOMAIN s}

\* every list that holds the elements of S once each: list(set(...)) gives
\* one of them, which one depends on the string hashing of the process
Orderings(S) == {s \in [1..Cardinality(S) -> S] : Range(s) = S}

\* Python truthiness of an optional string: None and "" are falsy
Truthy(v) == v \notin {NULL, EMPTY}

\* the check with one `not` lost: not request.email and request.phoneNumber
BothMissingTypo(email, phone) == ~Truthy(email) /\ Truthy(phone)

\* not request.email and not request.phoneNumber
BothMissing(email, phone) == ~Truthy(email) /\ ~Truthy(phone)

\* ContactRequest: each field is None or a string the field type accepts
ValidEmail(email) == email = NULL \/ email \in Emails
ValidPhone(phone) == phone = NULL \/ phone \in Phones
Validates(email, phone) == ValidEmail(email) /\ ValidPhone(phone)

\* (Contact.email == request.email) | (Contact.phoneNumber == request.phoneNumber)
\* SQLAlchemy renders `column == None` as `column IS NULL`, so an absent
\* field matches the rows whose column is NULL.
Matches(c, email, phone) == c.email = email \/ c.phoneNumber = phone

\* db.query(Contact).filter(...).all(): no index covers email or phoneNumber,
\* so SQLite scans the table and the rows come in id order
Query(store, email, phone) == SelectSeq(store, LAMBDA c : Matches(c, email, phone))

\* next((c for c in contacts if c.linkPrecedence == "primary"), contacts[0])
PrimaryContact(cs) ==
    LET prim == SelectSeq(cs, LAMBDA c : c.linkPrecedence = "primary")
    IN  IF prim # <<>> THEN prim[1] ELSE cs[1]

\* Contact(...) objects before the flush: no id, no timestamps yet
NewPrimary(email, phone) ==
    [email |-> email, phoneNumber |-> phone, linkedId |-> NoId, linkPrecedence |-> "primary"]
NewEmailSecondary(email, pid) ==
    [email |-> email, phoneNumber |-> NULL, linkedId |-> pid, linkPrecedence |-> "secondary"]
\* the new contact built without linkPrecedence: the column default (line 21)
\* makes it a primary
NewPhoneSecondaryByDefault(phone, pid) ==
    [email |-> NULL, phoneNumber |-> phone, linkedId |-> pid, linkPrecedence |-> "primary"]
NewPhoneSecondary(phone, pid) ==
    [email |-> NULL, phoneNumber |-> phone, linkedId |-> pid, linkPrecedence |-> "secondary"]

\* the membership test of line 67 left out
EmailIsNewAlways(cs, email) == Truthy(email)
\* the submitted email compared with the first matched row only
EmailIsNewToFirst(cs, email) == Truthy(email) /\ email # cs[1].email
\* the submitted phone number compared with primary_contact only
PhoneIsNewToPrimary(cs, phone) == Truthy(phone) /\ phone # PrimaryContact(cs).phoneNumber

\* request.email and request.email not in [c.email for c in contacts]
EmailIsNew(cs, email) == Truthy(email) /\ email \notin {cs[i].email : i \in DOMAIN cs}
PhoneIsNew(cs, phone) == Truthy(phone) /\ phone \notin {cs[i].phoneNumber : i \in DOMAIN cs}

\* new_entries, in the order the handler adds them to the session
NewEntries(cs, email, phone) ==
    LET pid == PrimaryContact(cs).id
    IN  (IF EmailIsNew(cs, email) THEN <<NewEmailSecondary(email, pid)>> ELSE <<>>)
        \o (IF PhoneIsNew(cs, phone) THEN <<NewPhoneSecondary(phone, pid)>> ELSE <<>>)

\* the objects the handler adds to the session, given what the lookup found
Added(cs, email, phone) ==
    IF cs = <<>> THEN <<NewPrimary(email, phone)>> ELSE NewEntries(cs, email, phone)

\* the handler writing the new values into the last stored row instead of
\* adding a Contact of its own
InsertRowOverLast(store, entry, t) ==
    IF store = <<>>
    THEN <<[id |-> 1, email |-> entry.email, phoneNumber |-> entry.phoneNumber,
            linkedId |-> entry.linkedId, linkPrecedence |-> entry.linkPrecedence,
            createdAt |-> t, updatedAt |-> t]>>
    ELSE [store EXCEPT ![Len(store)] =
            [@ EXCEPT !.email = IF Truthy(entry.email) THEN entry.email ELSE @,
                      !.phoneNumber = IF Truthy(entry.phoneNumber) THEN entry.phoneNumber ELSE @,
                      !.updatedAt = t]]

\* INSERT of one pending object: the table assigns the next id, the column
\* defaults stamp createdAt and updatedAt
InsertRow(store, entry, t) ==
    Append(store, [id |-> Len(store) + 1, email |-> entry.email, phoneNumber |-> entry.phoneNumber,
                   linkedId |-> entry.linkedId, linkPrecedence |-> entry.linkPrecedence,
                   createdAt |-> t, updatedAt |-> t])

\* the flush of db.commit(): every pending object is inserted, in order
RECURSIVE InsertAll(_, _, _)
InsertAll(store, objs, t) ==
    IF objs = <<>> THEN store
    ELSE InsertAll(InsertRow(store, Head(objs), t), Tail(objs), t)

\* a session that commits on its way out: the rows INSERTed so far stay
RollbackKeeps(store, rows) == store \o rows

\* the table after the rollback that ends a failed request (Session.commit
\* rolls back when the flush raises, db.close() in get_db when anything else
\* does): the rows of the open transaction are gone
Rollback(store, rows) == store

\* (Contact.id == primary_contact.id) | (Contact.linkedId == primary_contact.id)
ClusterQuery(store, pid) == SelectSeq(store, LAMBDA c : c.id = pid \/ c.linkedId = pid)

\* the values the response lists, before list(set(...)) orders them
ClusterEmails(all) == {all[i].email : i \in {j \in DOMAIN all : Truthy(all[j].email)}}
ClusterPhones(all) == {all[i].phoneNumber : i \in {j \in DOMAIN all : Truthy(all[j].phoneNumber)}}
\* [c.id for c in all_contacts if c.linkPrecedence == "secondary"]
SecondaryIds(all) ==
    LET sec == SelectSeq(all, LAMBDA c : c.linkPrecedence = "secondary")
    IN  [i \in DOMAIN sec |-> sec[i].id]

Rejected(code) == [NoResponse EXCEPT !.status = code]
Ok(pid, emails, phones, secs) ==
    [status |-> "200", primaryContactId |-> pid, emails |-> emails, phoneNumbers |-> phones, secondaryContactIds |-> secs]

\* the response of the no-match branch, lines 57-62
PrimaryView(new) ==
    Ok(new.id,
       IF Truthy(new.email) THEN <<new.email>> ELSE <<>>,
       IF Truthy(new.phoneNumber) THEN <<new.phoneNumber>> ELSE <<>>,
       <<>>)

(* ------------------------------- Spec --------------------------------- *)
Init ==
    /\ contacts = <<>>
    /\ now = 0
    /\ before = <<>>
    /\ request = NoRequest
    /\ response = NoResponse
    /\ queried = FALSE
    /\ repeat = FALSE
    /\ pc = [p \in Sessions |-> "idle"]
    /\ sreq = [p \in Sessions |-> NoRequest]
    /\ primary = [p \in Sessions |-> NoId]
    /\ entries = [p \in Sessions |-> <<>>]
    /\ flushed = [p \in Sessions |-> <<>>]
    /\ sresp = [p \in Sessions |-> NoResponse]
    /\ tx = <<>>
    /\ writer = NoSession
    /\ started = 0
    /\ base = <<>>
    /\ inflight = 0

\* what every request records, whatever its outcome
Arrives(email, phone) ==
    /\ before' = contacts
    /\ request' = [email |-> email, phoneNumber |-> phone]
    /\ UNCHANGED txvars

\* a request that fails before the lookup
Refuses(email, phone, code) ==
    /\ Arrives(email, phone)
    /\ response' = Rejected(code)
    /\ queried' = FALSE
    /\ repeat' = FALSE
    /\ UNCHANGED <<contacts, now>>

\* a request that runs the lookup and is answered
Serves(email, phone) ==
    /\ Arrives(email, phone)
    /\ queried' = TRUE
    /\ repeat' = (response.status = "200" /\ request = [email |-> email, phoneNumber |-> phone])

\* datetime.utcnow, the column default, read when a request inserts: requests
\* are served one after the other and the clock has advanced since the last
\* insert
Reading == now + 1

\* the body fails validation of ContactRequest: FastAPI answers 422 and
\* identify_contact is not called
RejectMalformed(email, phone) ==
    /\ ~Validates(email, phone)
    /\ Refuses(email, phone, "422")

\* lines 45-46
RejectEmpty(email, phone) ==
    /\ Validates(email, phone)
    /\ BothMissing(email, phone)
    /\ Refuses(email, phone, "400")

\* lines 48-62: the lookup finds nothing
CreatePrimary(email, phone) ==
    /\ Validates(email, phone)
    /\ ~BothMissing(email, phone)
    /\ Query(contacts, email, phone) = <<>>
    /\ Len(contacts) < MaxContacts
    /\ Serves(email, phone)
    /\ now' = Reading
    /\ contacts' = InsertAll(contacts, Added(<<>>, email, phone), now')
    /\ response' = PrimaryView(contacts'[Len(contacts')])

\* lines 48-50 and 64-89: the lookup finds rows
LinkContact(email, phone) ==
    /\ Validates(email, phone)
    /\ ~BothMissing(email, phone)
    /\ LET cs == Query(contacts, email, phone)
       IN  /\ cs # <<>>
           /\ Len(contacts) + Len(Added(cs, email, phone)) <= MaxContacts
           /\ Serves(email, phone)
           /\ now' = (IF Added(cs, email, phone) = <<>> THEN now ELSE Reading)
           /\ contacts' = InsertAll(contacts, Added(cs, email, phone), now')
           /\ LET pid == PrimaryContact(cs).id
                  all == ClusterQuery(contacts', pid)
              IN  \E em \in Orderings(ClusterEmails(all)), ph \in Orderings(ClusterPhones(all)) :
                      response' = Ok(pid, em, ph, SecondaryIds(all))

IdentifyContact(email, phone) ==
    \/ RejectMalformed(email, phone)
    \/ RejectEmpty(email, phone)
    \/ CreatePrimary(email, phone)
    \/ LinkContact(email, phone)

Next == \E email \in EmailInputs, phone \in PhoneInputs : IdentifyContact(email, phone)

Spec == Init /\ [][Next]_vars

(* ------------------------------ SpecTx -------------------------------- *)
\* the contacts of store that carry a value request r submits
Carried(store, r) ==
    {i \in DOMAIN store : \/ Truthy(r.email) /\ store[i].email = r.email
                          \/ Truthy(r.phoneNumber) /\ store[i].phoneNumber = r.phoneNumber}
\* two requests that submit no common value and whose values no contact of
\* store brings together
Apart(store, r1, r2) ==
    /\ ~(Truthy(r1.email) /\ r1.email = r2.email)
    /\ ~(Truthy(r1.phoneNumber) /\ r1.phoneNumber = r2.phoneNumber)
    /\ Carried(store, r1) \cap Carried(store, r2) = {}

\* a request has answered: if it overlapped no other, nothing is remembered of it
Forget ==
    IF inflight = 1
    THEN base' = <<>> /\ inflight' = 0
    ELSE UNCHANGED <<base, inflight>>
\* a request has failed: it is no longer one of a pair of served requests
ForgetFailed ==
    IF inflight = 1
    THEN base' = <<>> /\ inflight' = 0
    ELSE base' = <<>> /\ inflight' = 3

\* session q is between the lookup and the response of a request
InFlight(q) == pc[q] \in {"lookup", "commit", "respond"}

\* a request reaches a free session; lines 45-46 and the validation before them
TxBegin(p, email, phone) ==
    /\ pc[p] \in {"idle", "failed"}
    /\ started < MaxRequests
    /\ started' = started + 1
    /\ sreq' = [sreq EXCEPT ![p] = [email |-> email, phoneNumber |-> phone]]
    /\ primary' = [primary EXCEPT ![p] = NoId]
    /\ entries' = [entries EXCEPT ![p] = <<>>]
    /\ flushed' = [flushed EXCEPT ![p] = <<>>]
    /\ IF ~Validates(email, phone)
       THEN pc' = [pc EXCEPT ![p] = "idle"] /\ sresp' = [sresp EXCEPT ![p] = Rejected("422")]
       ELSE IF BothMissing(email, phone)
       THEN pc' = [pc EXCEPT ![p] = "idle"] /\ sresp' = [sresp EXCEPT ![p] = Rejected("400")]
       ELSE pc' = [pc EXCEPT ![p] = "lookup"] /\ sresp' = [sresp EXCEPT ![p] = NoResponse]
    /\ IF \E q \in Sessions \ {p} : InFlight(q)
       THEN IF /\ inflight = 1
               /\ Validates(email, phone) /\ ~BothMissing(email, phone)
               /\ \A q \in Sessions \ {p} :
                      Apart(base, sreq[q], [email |-> email, phoneNumber |-> phone])
            THEN base' = base /\ inflight' = 2
            ELSE base' = <<>> /\ inflight' = 3
       ELSE IF ~Validates(email, phone) \/ BothMissing(email, phone)
            THEN base' = <<>> /\ inflight' = 0
            ELSE base' = contacts /\ inflight' = 1
    /\ UNCHANGED <<contacts, now, seqvars, tx, writer>>

\* lines 48-74: the query sees the committed rows; what follows up to
\* db.commit() touches only the session
TxLookup(p) ==
    /\ pc[p] = "lookup"
    /\ LET cs == Query(contacts, sreq[p].email, sreq[p].phoneNumber)
       IN  /\ primary' = [primary EXCEPT ![p] = IF cs = <<>> THEN NoId ELSE PrimaryContact(cs).id]
           /\ entries' = [entries EXCEPT ![p] = Added(cs, sreq[p].email, sreq[p].phoneNumber)]
    /\ pc' = [pc EXCEPT ![p] = "commit"]
    /\ UNCHANGED <<contacts, now, seqvars, sreq, flushed, sresp, tx, writer, started, base, inflight>>

\* db.commit(), the flush: one INSERT. The first one opens the write
\* transaction, which one connection holds at a time; the row is visible to
\* that connection only.
TxFlush(p) ==
    /\ pc[p] = "commit"
    /\ entries[p] # <<>>
    /\ writer \in {NoSession, p}
    /\ Len(contacts) + Len(tx) < MaxContacts
    /\ now' = Reading
    /\ LET rows == InsertRow(contacts \o tx, Head(entries[p]), now')
       IN  /\ tx' = Append(tx, rows[Len(rows)])
           /\ flushed' = [flushed EXCEPT ![p] = Append(@, rows[Len(rows)])]
    /\ writer' = p
    /\ entries' = [entries EXCEPT ![p] = Tail(@)]
    /\ UNCHANGED <<contacts, seqvars, pc, sreq, primary, sresp, started, base, inflight>>

\* db.commit(), the COMMIT after the flush: the rows of the transaction
\* become visible together
TxCommit(p) ==
    /\ pc[p] = "commit"
    /\ entries[p] = <<>>
    /\ IF writer = p
       THEN contacts' = contacts \o tx /\ tx' = <<>> /\ writer' = NoSession
       ELSE UNCHANGED <<contacts, tx, writer>>
    /\ pc' = [pc EXCEPT ![p] = "respond"]
    /\ UNCHANGED <<now, seqvars, sreq, primary, entries, flushed, sresp, started, base, inflight>>

\* an INSERT or the COMMIT raises (the database stays locked, the disk is
\* full, the connection is lost): the transaction is rolled back and the
\* request ends with a 500
TxFail(p) ==
    /\ pc[p] = "commit"
    /\ IF writer = p
       THEN contacts' = Rollback(contacts, tx) /\ tx' = <<>> /\ writer' = NoSession
       ELSE UNCHANGED <<contacts, tx, writer>>
    /\ pc' = [pc EXCEPT ![p] = "failed"]
    /\ sresp' = [sresp EXCEPT ![p] = Rejected("500")]
    /\ ForgetFailed
    /\ UNCHANGED <<now, seqvars, sreq, primary, entries, flushed, started>>

\* lines 56-62, or 77-89: the refresh and the re-read see the committed rows
TxRespond(p) ==
    /\ pc[p] = "respond"
    /\ IF primary[p] = NoId
       THEN sresp' = [sresp EXCEPT ![p] = PrimaryView(flushed[p][1])]
       ELSE LET all == ClusterQuery(contacts, primary[p])
            IN  \E em \in Orderings(ClusterEmails(all)), ph \in Orderings(ClusterPhones(all)) :
                    sresp' = [sresp EXCEPT ![p] = Ok(primary[p], em, ph, SecondaryIds(all))]
    /\ pc' = [pc EXCEPT ![p] = "idle"]
    /\ Forget
    /\ UNCHANGED <<contacts, now, seqvars, sreq, primary, entries, flushed, tx, writer, started>>

TxNext ==
    \E p \in Sessions :
        \/ \E email \in EmailInputs, phone \in PhoneInputs : TxBegin(p, email, phone)
        \/ TxLookup(p)
        \/ TxFlush(p)
        \/ TxCommit(p)
        \/ TxFail(p)
        \/ TxRespond(p)

SpecTx == Init /\ [][TxNext]_vars

(* ----------------- the vocabulary of the claims ----------------------- *)
\* the last request was answered with a cluster view
Served == response.status = "200"
\* the rows the last request inserted
Inserted == SubSeq(contacts, Len(before) + 1, Len(contacts))
\* no row that was there before the last request was removed or changed
BeforeKept == Len(before) <= Len(contacts) /\ SubSeq(contacts, 1, Len(before)) = before

\* ids of the rows of store that carry the submitted value
WithEmail(store, email) == {i \in DOMAIN store : Truthy(email) /\ store[i].email = email}
WithPhone(store, phone) == {i \in DOMAIN store : Truthy(phone) /\ store[i].phoneNumber = phone}
\* a contact's root: itself if primary, otherwise the contact its linkedId points to
RootId(c) == IF c.linkPrecedence = "primary" THEN c.id ELSE c.linkedId
Roots(store, ids) == {RootId(store[i]) : i \in ids}
\* the cluster of root r: the contacts whose root is r
Cluster(store, r) == {i \in DOMAIN store : RootId(store[i]) = r}
\* a is older than b: earlier createdAt, lower id on a tie
Older(a, b) == a.createdAt < b.createdAt \/ (a.createdAt = b.createdAt /\ a.id < b.id)
\* the submitted values that are not empty
Submitted(v) == IF Truthy(v) THEN {v} ELSE {}

\* the last request's email matched a cluster rooted at a primary, its phone
\* number a cluster rooted at another primary
IsMerge ==
    /\ Served
    /\ WithEmail(before, request.email) # {} /\ WithPhone(before, request.phoneNumber) # {}
    /\ \E a, b \in DOMAIN before :
          /\ a # b
          /\ Roots(before, WithEmail(before, request.email)) = {a}
          /\ Roots(before, WithPhone(before, request.phoneNumber)) = {b}
          /\ before[a].linkPrecedence = "primary" /\ before[b].linkPrecedence = "primary"
MergeRoots ==
    Roots(before, WithEmail(before, request.email)) \cup Roots(before, WithPhone(before, request.phoneNumber))
\* the root of a merge that should survive
Survivor == CHOOSE a \in MergeRoots : \A b \in MergeRoots \ {a} : Older(before[a], before[b])

(* ------------------------------ claims -------------------------------- *)

\* C1 (as claimed): a valid request whose email and phone number are carried
\* by no stored contact inserts exactly one contact, a primary without linkedId
\* carrying exactly the submitted values, and answers with that contact's id,
\* just the submitted non-empty values and no secondary ids.
C1_NoMatchCreatesPrimary ==
    (Served /\ WithEmail(before, request.email) = {} /\ WithPhone(before, request.phoneNumber) = {})
    => /\ BeforeKept
       /\ Len(Inserted) = 1
       /\ Inserted[1].linkPrecedence = "primary"
       /\ Inserted[1].linkedId = NoId
       /\ Inserted[1].email = request.email
       /\ Inserted[1].phoneNumber = request.phoneNumber
       /\ response.primaryContactId = Inserted[1].id
       /\ Range(response.emails) = Submitted(request.email)
       /\ Range(response.phoneNumbers) = Submitted(request.phoneNumber)
       /\ response.secondaryContactIds = <<>>

\* C2 (as claimed): when all contacts matched by the request have one root R
\* and one submitted non-empty value is carried by no contact of R's cluster,
\* the request inserts exactly one contact carrying that value, secondary,
\* linked to R; the response names R, lists both submitted values and lists the
\* new contact among the secondary ids. Also when the only match is a secondary.
C2_PartialNewCreatesSecondary ==
    \A r \in DOMAIN before :
      LET matched == WithEmail(before, request.email) \cup WithPhone(before, request.phoneNumber)
          members == Cluster(before, r)
          emailNew == Truthy(request.email) /\ WithEmail(before, request.email) \cap members = {}
          phoneNew == Truthy(request.phoneNumber) /\ WithPhone(before, request.phoneNumber) \cap members = {}
      IN  (Served /\ matched # {} /\ Roots(before, matched) = {r} /\ (emailNew \/ phoneNew))
          => /\ BeforeKept
             /\ Len(Inserted) = 1
             /\ Inserted[1].linkPrecedence = "secondary"
             /\ Inserted[1].linkedId = r
             /\ emailNew => Inserted[1].email = request.email
             /\ phoneNew => Inserted[1].phoneNumber = request.phoneNumber
             /\ response.primaryContactId = r
             /\ Submitted(request.email) \subseteq Range(response.emails)
             /\ Submitted(request.phoneNumber) \subseteq Range(response.phoneNumbers)
             /\ Inserted[1].id \in Range(response.secondaryContactIds)

\* C3: a served request that repeats the served request right before it
\* inserts no contact, changes no contact and returns the same cluster view:
\* the same primaryContactId and the same sets of emails, phone numbers and
\* secondary ids.
C3_ResubmissionIdempotent ==
    [][repeat' =>
          /\ contacts' = contacts
          /\ response'.primaryContactId = response.primaryContactId
          /\ Range(response'.emails) = Range(response.emails)
          /\ Range(response'.phoneNumbers) = Range(response.phoneNumbers)
          /\ Range(response'.secondaryContactIds) = Range(response.secondaryContactIds)]_vars

\* a request was repeated against a cluster that has a secondary
C3_Witness ==
    repeat /\ Served /\ response.secondaryContactIds # <<>> /\ contacts = before

\* C4 (as claimed): after a request whose email matched the cluster of primary
\* A and whose phone number matched the cluster of another primary B, exactly
\* one of A and B is primary, the older one, and the other is a secondary
\* linked to it.
C4_MergeDemotesNewer ==
    IsMerge =>
      \A d \in MergeRoots \ {Survivor} :
          /\ contacts[Survivor].linkPrecedence = "primary"
          /\ contacts[d].linkPrecedence = "secondary"
          /\ contacts[d].linkedId = Survivor

\* C5 (as claimed): the response to such a merging request names the older of
\* the two roots as primaryContactId.
C5_MergeNamesOlder ==
    IsMerge => response.primaryContactId = Survivor

\* C6: a request whose non-empty email is carried by a contact of one cluster
\* and whose non-empty phone number is carried by a contact of a different
\* cluster inserts no contact.
C6_MergeInsertsNothing ==
    (/\ Served
     /\ \E i \in WithEmail(before, request.email), j \in WithPhone(before, request.phoneNumber) :
            RootId(before[i]) # RootId(before[j]))
    => Len(contacts) = Len(before)

\* a merging request was served
C6_Witness == IsMerge /\ Len(before) >= 2

\* C7 (as claimed): every contact with a linkedId points to an existing
\* contact that is primary.
C7_NoChains ==
    \A i \in DOMAIN contacts :
        contacts[i].linkedId # NoId =>
            /\ contacts[i].linkedId \in DOMAIN contacts
            /\ contacts[contacts[i].linkedId].linkPrecedence = "primary"

\* two contacts share a non-empty email or a non-empty phone number
Shares(a, b) ==
    \/ Truthy(a.email) /\ a.email = b.email
    \/ Truthy(a.phoneNumber) /\ a.phoneNumber = b.phoneNumber
\* the contacts connected to those of g through shared values
RECURSIVE Group(_)
Group(g) ==
    LET more == {j \in DOMAIN contacts : \E i \in g : Shares(contacts[i], contacts[j])}
    IN  IF more \subseteq g THEN g ELSE Group(g \cup more)

\* C8 (as claimed): every group of contacts connected through shared email or
\* phone values holds exactly one primary, and its other contacts are
\* secondaries linked to that primary.
C8_OnePrimaryPerIdentity ==
    \A i \in DOMAIN contacts :
      LET g == Group({i})
          prims == {j \in g : contacts[j].linkPrecedence = "primary"}
      IN  /\ Cardinality(prims) = 1
          /\ \A j \in g \ prims :
                contacts[j].linkPrecedence = "secondary" /\ contacts[j].linkedId \in prims

\* C9 (as claimed): a request whose email and phoneNumber are both absent or
\* empty is answered 400, runs no query and leaves the store as it was.
C9_EmptyRejected400 ==
    (request # NoRequest /\ BothMissing(request.email, request.phoneNumber))
    => response.status = "400" /\ ~queried /\ contacts = before

\* C9 (amended): such a request is rejected, with 400 when both fields are
\* absent and with 422 when one of them is an empty string; it runs no query
\* and leaves the store as it was.
C9_EmptyRejected ==
    (request # NoRequest /\ ~Truthy(request.email) /\ ~Truthy(request.phoneNumber))
    => /\ response.status = (IF request.email = NULL /\ request.phoneNumber = NULL THEN "400" ELSE "422")
       /\ ~queried
       /\ contacts = before

\* a request without email and phone number met a store that holds contacts
C9_Witness ==
    /\ request = [email |-> NULL, phoneNumber |-> NULL]
    /\ response.status = "400"
    /\ Len(contacts) >= 2

\* C10: a request that fails after its lookup and before its commit completes
\* leaves none of its rows in the store, and at no time is only a part of a
\* request's rows visible: the rows a request has INSERTed are all in the
\* table, once its commit has completed, or none of them is.
C10_Atomicity ==
    \A p \in Sessions :
      LET visible == {i \in DOMAIN flushed[p] : flushed[p][i] \in Range(contacts)}
      IN  /\ \/ visible = {}
             \/ visible = DOMAIN flushed[p] /\ entries[p] = <<>> /\ pc[p] \in {"respond", "idle"}
          /\ pc[p] = "failed" => visible = {}

\* a request failed after an INSERT, against a table that holds rows
C10_Witness ==
    \E p \in Sessions : pc[p] = "failed" /\ flushed[p] # <<>> /\ contacts # <<>>

\* the primaries of the table that carry email (phone number) v
PrimariesWithEmail(v) == {i \in DOMAIN contacts : contacts[i].email = v /\ contacts[i].linkPrecedence = "primary"}
PrimariesWithPhone(v) == {i \in DOMAIN contacts : contacts[i].phoneNumber = v /\ contacts[i].linkPrecedence = "primary"}

\* C11 (as claimed): whatever the interleaving of two requests that carry the
\* same email (or the same phone number), they never both find no match and
\* both create a primary for it: the table holds at most one primary that
\* carries a given email and at most one that carries a given phone number.
C11_NoDuplicatePrimary ==
    /\ \A v \in Emails : Cardinality(PrimariesWithEmail(v)) <= 1
    /\ \A v \in Phones : Cardinality(PrimariesWithPhone(v)) <= 1

\* identify_contact run alone on store for request r: the table it leaves
ServedAlone(store, r) ==
    InsertAll(store, Added(Query(store, r.email, r.phoneNumber), r.email, r.phoneNumber), 0)
\* a row without the id and the timestamps its INSERT assigned
Shape(c) == <<c.email, c.phoneNumber, c.linkedId, c.linkPrecedence>>
\* a table up to the assignment of new ids: how often each shape occurs in it
Shapes(store) ==
    [s \in {Shape(store[i]) : i \in DOMAIN store} |-> Cardinality({i \in DOMAIN store : Shape(store[i]) = s})]
\* a cluster view up to the assignment of new ids
ViewShape(store, pid, emails, phones, secs) ==
    [primaryContact |-> Shape(store[pid]), emails |-> emails, phoneNumbers |-> phones,
     secondaryContacts |-> {Shape(store[i]) : i \in secs}]
\* the view identify_contact returns for r when it runs alone on store
ViewAlone(store, r) ==
    LET cs == Query(store, r.email, r.phoneNumber)
        after == ServedAlone(store, r)
        pid == IF cs = <<>> THEN Len(after) ELSE PrimaryContact(cs).id
        all == IF cs = <<>> THEN <<after[pid]>> ELSE ClusterQuery(after, pid)
    IN  ViewShape(after, pid, ClusterEmails(all), ClusterPhones(all),
                  IF cs = <<>> THEN {} ELSE Range(SecondaryIds(all)))
\* the view session p returned
ViewOf(p) ==
    ViewShape(contacts, sresp[p].primaryContactId, Range(sresp[p].emails),
              Range(sresp[p].phoneNumbers), Range(sresp[p].secondaryContactIds))
\* running r1 and then r2 on base gives the table and the two views at hand
SameAsInOrder(p1, p2) ==
    LET mid == ServedAlone(base, sreq[p1])
    IN  /\ Shapes(contacts) = Shapes(ServedAlone(mid, sreq[p2]))
        /\ ViewOf(p1) = ViewAlone(base, sreq[p1])
        /\ ViewOf(p2) = ViewAlone(mid, sreq[p2])
\* the two sessions have each answered one request, the two overlapped, and
\* the requests share no value and matched disjoint sets of contacts
DisjointPairServed ==
    /\ inflight = 2
    /\ \A p \in Sessions : pc[p] = "idle" /\ sresp[p].status = "200"
    /\ Apart(base, sreq[1], sreq[2])

\* C12 (as claimed): two overlapping requests that share no value and whose
\* matched contacts are disjoint leave, in every interleaving, the contacts
\* (up to the assignment of new ids) and return the two responses that running
\* them one after the other gives.
C12_DisjointDoNotInterfere ==
    DisjointPairServed => (SameAsInOrder(1, 2) \/ SameAsInOrder(2, 1))

\* the contacts the last request matched, in the sense of the claims: those
\* that carry the submitted email or the submitted phone number
MatchedBefore == WithEmail(before, request.email) \cup WithPhone(before, request.phoneNumber)
\* the oldest root of the matched contacts: the primary of the final cluster
FinalPrimary ==
    CHOOSE a \in Roots(before, MatchedBefore) :
        \A b \in Roots(before, MatchedBefore) \ {a} : Older(before[a], before[b])
\* the non-empty emails (phone numbers) of the contacts ids
EmailsOf(ids) == {contacts[i].email : i \in {j \in ids : Truthy(contacts[j].email)}}
PhonesOf(ids) == {contacts[i].phoneNumber : i \in {j \in ids : Truthy(contacts[j].phoneNumber)}}

\* C13 (as claimed): the response to a request that found a match lists, as
\* sets, exactly the non-empty emails and phone numbers of the surviving
\* primary and of every contact whose root is that primary, and exactly the
\* ids of the non-primary contacts of that cluster.
C13_ResponseIsWholeCluster ==
    (Served /\ MatchedBefore # {})
    => LET members == Cluster(contacts, FinalPrimary)
       IN  /\ Range(response.emails) = EmailsOf(members)
           /\ Range(response.phoneNumbers) = PhonesOf(members)
           /\ Range(response.secondaryContactIds) = {i \in members : contacts[i].linkPrecedence # "primary"}
           /\ Len(response.emails) = Cardinality(Range(response.emails))
           /\ Len(response.phoneNumbers) = Cardinality(Range(response.phoneNumbers))

\* the response lists the primary's own email and phone number first and the
\* secondary ids in ascending order
ResponseOrdered ==
    response.status = "200" =>
      LET prim == contacts[response.primaryContactId]
      IN  /\ Truthy(prim.email) => (response.emails # <<>> /\ response.emails[1] = prim.email)
          /\ Truthy(prim.phoneNumber) => (response.phoneNumbers # <<>> /\ response.phoneNumbers[1] = prim.phoneNumber)
          /\ \A i, j \in DOMAIN response.secondaryContactIds :
                i < j => response.secondaryContactIds[i] < response.secondaryContactIds[j]

\* C14 (as claimed): every response is ordered that way, and a request that
\* repeats the one before it against the same store state returns the very
\* same sequences.
C14_DeterministicOrder ==
    [][/\ ResponseOrdered'
       /\ (repeat' /\ contacts = before) => response' = response]_vars

\* the ids of the rows the lookup of the last request returned
LookedUp == {c.id : c \in Range(Query(before, request.email, request.phoneNumber))}

\* C15 (as claimed): a request that supplies only a phone number matches
\* exactly the contacts whose phoneNumber is that phone number, and links no
\* new contact to a contact that has another phone number; symmetrically
\* for a request that supplies only an email.
C15_AbsentMatchesNothing ==
    /\ (Served /\ request.email = NULL)
       => /\ LookedUp = WithPhone(before, request.phoneNumber)
          /\ \A i \in DOMAIN Inserted :
                Inserted[i].linkedId # NoId => before[Inserted[i].linkedId].phoneNumber = request.phoneNumber
    /\ (Served /\ request.phoneNumber = NULL)
       => /\ LookedUp = WithEmail(before, request.email)
          /\ \A i \in DOMAIN Inserted :
                Inserted[i].linkedId # NoId => before[Inserted[i].linkedId].email = request.email

\* C16: in every store state reachable by a sequence of requests, a contact
\* has a linkedId if and only if its linkPrecedence is secondary, and its
\* linkPrecedence is primary or secondary.
C16_LinkedIffSecondary ==
    \A i \in DOMAIN contacts :
        /\ contacts[i].linkPrecedence \in {"primary", "secondary"}
        /\ contacts[i].linkedId # NoId <=> contacts[i].linkPrecedence = "secondary"

\* the store holds primaries and secondaries, made from emails and phone numbers
C16_Witness ==
    /\ \E i, j \in DOMAIN contacts :
          /\ contacts[i].linkPrecedence = "primary"
          /\ contacts[j].linkPrecedence = "secondary" /\ Truthy(contacts[j].phoneNumber)
    /\ \E j \in DOMAIN contacts : contacts[j].linkPrecedence = "secondary" /\ Truthy(contacts[j].email)

\* contact i of the store before the last request was demoted by it: it was
\* the newer root of a merge
Demoted(i) == IsMerge /\ i \in MergeRoots \ {Survivor}

\* C17: no request removes a contact or changes the id, email or phoneNumber
\* of a contact that existed before it; linkedId, linkPrecedence and updatedAt
\* change at most for a contact a merge demoted, and nothing else changes.
C17_ExistingContactsKept ==
    request # NoRequest =>
      /\ Len(before) <= Len(contacts)
      /\ \A i \in DOMAIN before :
            /\ contacts[i].id = before[i].id
            /\ contacts[i].email = before[i].email
            /\ contacts[i].phoneNumber = before[i].phoneNumber
            /\ contacts[i].createdAt = before[i].createdAt
            /\ ~Demoted(i) => contacts[i] = before[i]

\* a request added a contact to a store that held contacts
C17_Witness ==
    Served /\ Len(before) >= 2 /\ Len(contacts) > Len(before)

\* C18 (as claimed): the contact a response names as primaryContactId is a
\* primary in the store at that time, and its id is not among the
\* secondaryContactIds; also when every matched contact is a secondary.
C18_PrimaryIdNamesPrimary ==
    Served =>
      /\ response.primaryContactId \in DOMAIN contacts
      /\ contacts[response.primaryContactId].linkPrecedence = "primary"
      /\ response.primaryContactId \notin Range(response.secondaryContactIds)

\* C19 (as claimed): a served request's non-empty email is among the returned
\* emails and its non-empty phone number among the returned phoneNumbers, also
\* when the two matched contacts of different clusters.
C19_ResponseHoldsSubmitted ==
    Served =>
      /\ Submitted(request.email) \subseteq Range(response.emails)
      /\ Submitted(request.phoneNumber) \subseteq Range(response.phoneNumbers)

\* C20: every request inserts at most one contact and removes none; a request
\* with email and phone number that finds a match never inserts two rows.
C20_AtMostOneRow ==
    request # NoRequest => (Len(before) <= Len(contacts) /\ Len(contacts) <= Len(before) + 1)

\* a request with email and phone number found a match and inserted a row
C20_Witness ==
    /\ Served
    /\ Truthy(request.email) /\ Truthy(request.phoneNumber)
    /\ LookedUp # {}
    /\ Len(contacts) = Len(before) + 1

====
